---- MODULE Spec2Model ----
(***************************************************************************)
(* A model of flu, a chainable terminal styling library.                   *)
(*                                                                         *)
(* A JavaScript string is modelled as a sequence of tokens.  A token is a  *)
(* TLA+ string standing for a run of characters that the program never     *)
(* splits: the escape introducer ESC ("\u001B["), a decimal number, or a    *)
(* single character.  The empty string is the empty sequence.              *)
(***************************************************************************)
EXTENDS Integers, Sequences, FiniteSets, TLC

VARIABLES
  registry,   \* createFlu's `registry`: [styles, dynamics], shared by every builder
  builders,   \* the builders created so far; builders[i] is the `styles` array
              \* builder i closes over; builder 1 is the root, create([])
  last        \* the last call made on the public surface and what it returned

vars == <<registry, builders, last>>

(***************************************************************************)
(* Bounds of the model.                                                    *)
(***************************************************************************)
MaxBuilders == 3
MaxChain == 3
MaxFrags == 3
MaxPairLen == 2
MaxHexLen == 7

(***************************************************************************)
(* constants.ts                                                            *)
(***************************************************************************)
ESC == "ESC["

code(n) == <<ESC, ToString(n), "m">>

FG_BASE == 30
BG_BASE == 40
FG_BRIGHT_BASE == 90
BG_BRIGHT_BASE == 100

FG_CLOSE == code(39)
BG_CLOSE == code(49)

BASE_COLORS ==
  <<"black", "red", "green", "yellow", "blue", "magenta", "cyan", "white">>

(***************************************************************************)
(* utils.ts                                                                *)
(***************************************************************************)
Style(o, c) == [open |-> o, close |-> c]

Min(a, b) == IF a < b THEN a ELSE b
Max(a, b) == IF a > b THEN a ELSE b

\* Numbers are integers here, so Number(n) is n, NaN does not arise and
\* Math.floor is the identity.
clamp255(n) == Min(255, Max(0, n))

truecolor(openBase, r, g, b) ==
  LET R == clamp255(r)
      G == clamp255(g)
      B == clamp255(b)
  IN  Style(<<ESC, ToString(openBase), ";", "2", ";", ToString(R), ";",
              ToString(G), ";", ToString(B), "m">>,
            IF openBase = 38 THEN FG_CLOSE ELSE BG_CLOSE)

\* capitalize on the names it is applied to (BASE_COLORS).
capitalize(s) ==
  CASE s = "black" -> "Black"
    [] s = "red" -> "Red"
    [] s = "green" -> "Green"
    [] s = "yellow" -> "Yellow"
    [] s = "blue" -> "Blue"
    [] s = "magenta" -> "Magenta"
    [] s = "cyan" -> "Cyan"
    [] s = "white" -> "White"
    [] OTHER -> s

\* Whether pat occurs in s starting at index i (1-based).
MatchAt(s, pat, i) ==
  /\ i + Len(pat) - 1 <= Len(s)
  /\ \A k \in 1..Len(pat) : s[i + k - 1] = pat[k]

\* The number of (possibly overlapping) occurrences of pat in s.
Occurrences(pat, s) == Cardinality({i \in 1..(Len(s) + 1) : MatchAt(s, pat, i)})

Contains(s, pat) == \E i \in 1..(Len(s) + 1) : MatchAt(s, pat, i)

\* String.prototype.replace's expansion of a replacement string: a dollar
\* sign followed by a dollar sign is one dollar sign, a dollar sign followed
\* by an ampersand is the match.  The pattern has no capture groups, so a
\* dollar sign before a number stays; the two patterns that stand for the
\* text before and after the match use characters outside the alphabet.
RECURSIVE GetSubstitution(_, _)
GetSubstitution(repl, matched) ==
  IF repl = <<>> THEN <<>>
  ELSE IF Head(repl) = "$" /\ Len(repl) >= 2 /\ repl[2] \in {"$", "&"}
  THEN LET rest == GetSubstitution(SubSeq(repl, 3, Len(repl)), matched)
       IN  IF repl[2] = "$" THEN <<"$">> \o rest ELSE matched \o rest
  ELSE <<Head(repl)>> \o GetSubstitution(Tail(repl), matched)

\* out.replace(new RegExp(escapeRegExp(pat), "g"), repl) from index i on:
\* escapeRegExp makes the pattern match pat literally; matches are taken
\* leftmost and do not overlap; the empty pattern matches before every
\* character and at the end.
RECURSIVE ReplaceFrom(_, _, _, _)
ReplaceFrom(s, pat, repl, i) ==
  IF pat = <<>>
  THEN IF i > Len(s)
       THEN GetSubstitution(repl, <<>>)
       ELSE GetSubstitution(repl, <<>>) \o <<s[i]>> \o ReplaceFrom(s, pat, repl, i + 1)
  ELSE IF i > Len(s) THEN <<>>
  ELSE IF MatchAt(s, pat, i)
  THEN GetSubstitution(repl, pat) \o ReplaceFrom(s, pat, repl, i + Len(pat))
  ELSE <<s[i]>> \o ReplaceFrom(s, pat, repl, i + 1)

\* A replace that finds no match.
ReplaceAll_none(s, pat, repl) == s

ReplaceAll(s, pat, repl) == ReplaceFrom(s, pat, repl, 1)

\* The loop body without the reopening of inner closes.
WrapStep_noReopen(out, s) == s.open \o out \o s.close

\* The loop body ending with the open sequence instead of the close.
WrapStep_openTwice(out, s) ==
  s.open \o ReplaceAll(out, s.close, s.close \o s.open) \o s.open

\* One turn of the loop of applyStyles.
WrapStep(out, s) == s.open \o ReplaceAll(out, s.close, s.close \o s.open) \o s.close

\* The loop running over the styles from the last to the first.
RECURSIVE WrapFrom_reversed(_, _, _)
WrapFrom_reversed(out, styles, k) ==
  IF k > Len(styles) THEN out
  ELSE WrapFrom_reversed(WrapStep(out, styles[Len(styles) + 1 - k]), styles, k + 1)

RECURSIVE WrapFrom(_, _, _)
WrapFrom(out, styles, k) ==
  IF k > Len(styles) THEN out ELSE WrapFrom(WrapStep(out, styles[k]), styles, k + 1)

\* applyStyles without the early return for an empty text.
applyStyles_noEmptyCheck(text, styles) ==
  IF Len(styles) = 0 THEN text ELSE WrapFrom(text, styles, 1)

applyStyles(text, styles) ==
  IF Len(styles) = 0 \/ Len(text) = 0 THEN text ELSE WrapFrom(text, styles, 1)

\* String(a) of joinArgs, for a string, a number and a boolean argument.
StringOf(a) ==
  CASE a.t = "string" -> a.v
    [] a.t = "number" -> <<ToString(a.v)>>
    [] a.t = "boolean" -> IF a.v THEN <<"true">> ELSE <<"false">>

Str(s) == [t |-> "string", v |-> s]
Num(n) == [t |-> "number", v |-> n]
Bool(b) == [t |-> "boolean", v |-> b]

RECURSIVE joinArgs(_)
joinArgs(args) ==
  IF args = <<>> THEN <<>>
  ELSE IF Len(args) = 1 THEN StringOf(args[1])
  ELSE StringOf(args[1]) \o <<" ">> \o joinArgs(Tail(args))

Whitespace == {" ", "\t", "\n"}

RECURSIVE TrimStart(_)
TrimStart(s) ==
  IF s # <<>> /\ Head(s) \in Whitespace THEN TrimStart(Tail(s)) ELSE s

RECURSIVE TrimEnd(_)
TrimEnd(s) ==
  IF s # <<>> /\ s[Len(s)] \in Whitespace THEN TrimEnd(SubSeq(s, 1, Len(s) - 1)) ELSE s

\* String.prototype.trim
Trim(s) == TrimEnd(TrimStart(s))

HexLower ==
  <<"0", "1", "2", "3", "4", "5", "6", "7", "8", "9", "a", "b", "c", "d", "e", "f">>
HexUpper ==
  <<"0", "1", "2", "3", "4", "5", "6", "7", "8", "9", "A", "B", "C", "D", "E", "F">>

\* A character the class [0-9a-f] matches under the i flag.
IsHexDigit(c) == \E i \in 1..16 : HexLower[i] = c \/ HexUpper[i] = c

HexValue(c) == (CHOOSE i \in 1..16 : HexLower[i] = c \/ HexUpper[i] = c) - 1

\* parseInt(two hex digits, 16)
ParseByte(s) == 16 * HexValue(s[1]) + HexValue(s[2])

\* h.split("").map((c) => c + c).join("")
RECURSIVE DoubleEach(_)
DoubleEach(h) ==
  IF h = <<>> THEN <<>> ELSE <<Head(h), Head(h)>> \o DoubleEach(Tail(h))

\* The digits without the trim.
HexDigits_noTrim(hex) ==
  LET h == IF hex # <<>> /\ Head(hex) = "#" THEN Tail(hex) ELSE hex
  IN  IF Len(h) = 3 THEN DoubleEach(h) ELSE h

\* The digits parseHex tests: trimmed, one leading "#" removed, a 3-character
\* form doubled.
HexDigits(hex) ==
  LET t == Trim(hex)
      h == IF t # <<>> /\ Head(t) = "#" THEN Tail(t) ELSE t
  IN  IF Len(h) = 3 THEN DoubleEach(h) ELSE h

Returned(v) == [ok |-> TRUE, value |-> v]
Thrown(e) == [ok |-> FALSE, error |-> e]

parseHex(hex) ==
  LET h == HexDigits(hex)
  IN  IF Len(h) # 6 \/ \E i \in 1..Len(h) : ~IsHexDigit(h[i])
      THEN Thrown(<<"Invalid hex color: ">> \o hex)
      ELSE Returned(<<ParseByte(SubSeq(h, 1, 2)), ParseByte(SubSeq(h, 3, 4)),
                      ParseByte(SubSeq(h, 5, 6))>>)

(***************************************************************************)
(* core.ts                                                                 *)
(***************************************************************************)
\* obj[k] = v on a plain object
Assign(obj, k, v) == (k :> v) @@ obj

modifierCodes ==
  [n \in {"reset", "bold", "dim", "italic", "underline", "inverse", "hidden",
          "strikethrough"} |->
     CASE n = "reset" -> Style(code(0), code(0))
       [] n = "bold" -> Style(code(1), code(22))
       [] n = "dim" -> Style(code(2), code(22))
       [] n = "italic" -> Style(code(3), code(23))
       [] n = "underline" -> Style(code(4), code(24))
       [] n = "inverse" -> Style(code(7), code(27))
       [] n = "hidden" -> Style(code(8), code(28))
       [] OTHER -> Style(code(9), code(29))]

\* One turn of the BASE_COLORS.forEach of createDefaultRegistry, i from 0.
ColorStep(styles, i) ==
  LET name == BASE_COLORS[i + 1]
      s1 == Assign(styles, name, Style(code(FG_BASE + i), FG_CLOSE))
      s2 == Assign(s1, name \o "Bright", Style(code(FG_BRIGHT_BASE + i), FG_CLOSE))
      s3 == Assign(s2, "bg" \o capitalize(name), Style(code(BG_BASE + i), BG_CLOSE))
  IN  Assign(s3, "bg" \o capitalize(name) \o "Bright",
             Style(code(BG_BRIGHT_BASE + i), BG_CLOSE))

RECURSIVE ColorsFrom(_, _)
ColorsFrom(styles, i) ==
  IF i >= Len(BASE_COLORS) THEN styles ELSE ColorsFrom(ColorStep(styles, i), i + 1)

\* A StyleFactory is named by what it computes: the four built-in factories
\* and the hsl factory of the README's plugin example.
BuiltInFactories == {"rgb", "bgRgb", "hex", "bgHex"}

Factory(f) == [factory |-> f]

createDefaultRegistry ==
  LET colors == ColorsFrom(modifierCodes, 0)
      gray == Assign(Assign(colors, "grey", Style(code(FG_BRIGHT_BASE), FG_CLOSE)),
                     "gray", Style(code(FG_BRIGHT_BASE), FG_CLOSE))
      bgGray == Assign(Assign(gray, "bgGrey", Style(code(BG_BRIGHT_BASE), BG_CLOSE)),
                       "bgGray", Style(code(BG_BRIGHT_BASE), BG_CLOSE))
  IN  [styles |-> bgGray, dynamics |-> [n \in BuiltInFactories |-> Factory(n)]]

\* factory(...args): the built-in factories of createDefaultRegistry, and
\* the README's hsl.
CallFactory(fn, args) ==
  LET f == fn.factory IN
  CASE f = "rgb" -> Returned(truecolor(38, args[1], args[2], args[3]))
    [] f = "bgRgb" -> Returned(truecolor(48, args[1], args[2], args[3]))
    [] f = "hex" ->
         LET p == parseHex(args[1])
         IN  IF p.ok THEN Returned(truecolor(38, p.value[1], p.value[2], p.value[3]))
             ELSE p
    [] f = "bgHex" ->
         LET p == parseHex(args[1])
         IN  IF p.ok THEN Returned(truecolor(48, p.value[1], p.value[2], p.value[3]))
             ELSE p
    [] f = "hsl" ->
         Returned(Style(<<ESC, "38", ";", "2", ";", ToString(args[1] % 255), ";",
                          ToString(args[2] % 255), ";", ToString(args[3] % 255), "m">>,
                        code(39)))

\* The members a plain object inherits from Object.prototype.
ObjectPrototype ==
  {"constructor", "toString", "toLocaleString", "valueOf", "hasOwnProperty",
   "isPrototypeOf", "propertyIsEnumerable", "__proto__", "__defineGetter__",
   "__defineSetter__", "__lookupGetter__", "__lookupSetter__"}

Undefined == [undefined |-> TRUE]

\* obj[k] on a plain object: its own property, else the inherited member,
\* else undefined.
Lookup(obj, k) ==
  IF k \in DOMAIN obj THEN obj[k]
  ELSE IF k \in ObjectPrototype THEN [inherited |-> k]
  ELSE Undefined

\* Every value a registry table holds is an object or a function.
Truthy(v) == v # Undefined

\* A property key: a string, or a symbol.
Key(n) == [symbol |-> FALSE, name |-> n]
ToPrimitive == [symbol |-> TRUE, name |-> "Symbol.toPrimitive"]

PluginOps == {"registerStyle", "registerDynamicStyle", "extend"}

\* get with the factories consulted before the static styles.
get_dynamicsFirst(reg, prop) ==
  IF ~prop.symbol /\ prop.name \in PluginOps
  THEN [kind |-> "plugin", fn |-> prop.name]
  ELSE IF ~prop.symbol /\ Truthy(Lookup(reg.dynamics, prop.name))
  THEN [kind |-> "accessor", prop |-> prop.name]
  ELSE IF ~prop.symbol /\ Truthy(Lookup(reg.styles, prop.name))
  THEN [kind |-> "builder", st |-> Lookup(reg.styles, prop.name)]
  ELSE IF prop = ToPrimitive
  THEN [kind |-> "toPrimitive"]
  ELSE [kind |-> "undefined"]

\* The handler's get(_t, prop): what the property access resolves to.  For
\* a style st the handler returns create([...styles, st]); for a factory, a
\* function that looks the factory up again when it is called.
get(reg, prop) ==
  IF ~prop.symbol /\ prop.name \in PluginOps
  THEN [kind |-> "plugin", fn |-> prop.name]
  ELSE IF ~prop.symbol /\ Truthy(Lookup(reg.styles, prop.name))
  THEN [kind |-> "builder", st |-> Lookup(reg.styles, prop.name)]
  ELSE IF ~prop.symbol /\ Truthy(Lookup(reg.dynamics, prop.name))
  THEN [kind |-> "accessor", prop |-> prop.name]
  ELSE IF prop = ToPrimitive
  THEN [kind |-> "toPrimitive"]
  ELSE [kind |-> "undefined"]

\* s.close of a value that is a function of Object.prototype is undefined,
\* and escapeRegExp(undefined) throws.
IsStyle(s) == "close" \in DOMAIN s

\* The handler's apply: applyStyles(joinArgs(argArray), styles).
render(text, styles) ==
  IF Len(styles) = 0 \/ Len(text) = 0 THEN Returned(applyStyles(text, styles))
  ELSE IF \E i \in 1..Len(styles) : ~IsStyle(styles[i])
  THEN Thrown(<<"TypeError">>)
  ELSE Returned(applyStyles(text, styles))

\* registerStyle writing into a copy of the table, which is then dropped.
registerStyle_copy(reg, name, open, close) == reg

\* The registry after the three plugin operations.
registerStyle(reg, name, open, close) ==
  [reg EXCEPT !.styles = Assign(@, name, Style(open, close))]

registerDynamicStyle(reg, name, factory) ==
  [reg EXCEPT !.dynamics = Assign(@, name, factory)]

\* defs is Object.entries(defs): a sequence of <<key, value>>; a value that
\* is a function is a factory.
IsFunction(v) == "factory" \in DOMAIN v

RECURSIVE extend(_, _)
extend(reg, defs) ==
  IF defs = <<>> THEN reg
  ELSE LET k == defs[1][1]
           v == defs[1][2]
       IN  extend(IF IsFunction(v) THEN registerDynamicStyle(reg, k, v)
                  ELSE [reg EXCEPT !.styles = Assign(@, k, v)],
                  Tail(defs))

\* create(styles) after styles.push(st): the parent's array grows too.
create_push(bs, b, st) ==
  LET grown == [bs EXCEPT ![b] = Append(@, st)] IN Append(grown, grown[b])

\* The builders after create([...styles, st]) from builder b.
create(bs, b, st) == Append(bs, Append(bs[b], st))

\* The arguments a factory is called with: three numbers, or a hex string.
NumberArgs == {<<255, 0, 300>>}
TakesHex(factory) == factory.factory \in {"hex", "bgHex"}

(***************************************************************************)
(* The state machine: one root, the operations of its public surface.      *)
(***************************************************************************)
Init ==
  /\ registry = createDefaultRegistry
  /\ builders = <<<<>>>>
  /\ last = [op |-> "createFlu"]

Builders == 1..Len(builders)

NoCall == [op |-> "none"]

\* builder[prop].  `after` is what the record of the access keeps of the call
\* made just before it; `limit` bounds the builders the model creates.
Access(b, prop, after, limit) ==
  LET r == get(registry, prop)
  IN  /\ r.kind = "builder" => Len(builders) < limit
      /\ builders' = IF r.kind = "builder" THEN create(builders, b, r.st) ELSE builders
      /\ last' = [op |-> "get", b |-> b, prop |-> prop, kind |-> r.kind,
                  after |-> after]
      /\ UNCHANGED registry

GetProp(b, prop) == Access(b, prop, NoCall, MaxBuilders)

RegOps == {"registerStyle", "registerDynamicStyle", "extend"}

\* An access right after a registration call keeps that call.
GetAfter(b, prop) ==
  Access(b, prop, IF last.op \in RegOps THEN last ELSE NoCall, MaxBuilders)

\* builder(...args)
Invoke(b, args) ==
  /\ last' = [op |-> "call", b |-> b, text |-> joinArgs(args),
              result |-> render(joinArgs(args), builders[b])]
  /\ UNCHANGED <<registry, builders>>

\* A string coercion of the builder: builder[Symbol.toPrimitive]()
Coerce(b) ==
  /\ get(registry, ToPrimitive).kind = "toPrimitive"
  /\ last' = [op |-> "coerce", b |-> b, text |-> <<>>,
              result |-> render(<<>>, builders[b])]
  /\ UNCHANGED <<registry, builders>>

\* builder[prop](...args): the call of the function the last get returned
\* for a factory's name.  The function looks the factory up when called.
CallAccessor(args) ==
  /\ last.op = "get"
  /\ last.kind = "accessor"
  /\ TakesHex(Lookup(registry.dynamics, last.prop.name)) <=> Len(args) = 1
  /\ LET r == CallFactory(Lookup(registry.dynamics, last.prop.name), args)
     IN  /\ r.ok => Len(builders) < MaxBuilders
         /\ builders' = IF r.ok THEN create(builders, last.b, r.value) ELSE builders
         /\ last' = IF r.ok
                    THEN [op |-> "callAccessor", b |-> last.b, prop |-> last.prop,
                          args |-> args, kind |-> "builder"]
                    ELSE [op |-> "callAccessor", b |-> last.b, prop |-> last.prop,
                          args |-> args, kind |-> "throw", error |-> r.error]
  /\ UNCHANGED registry

\* builder.registerStyle(name, open, close)
RegisterStyle(b, name, open, close) ==
  /\ get(registry, Key("registerStyle")).kind = "plugin"
  /\ registry' = registerStyle(registry, name, open, close)
  /\ last' = [op |-> "registerStyle", b |-> b, defs |-> <<<<name, Style(open, close)>>>>]
  /\ UNCHANGED builders

\* builder.registerDynamicStyle(name, factory)
RegisterDynamicStyle(b, name, factory) ==
  /\ get(registry, Key("registerDynamicStyle")).kind = "plugin"
  /\ registry' = registerDynamicStyle(registry, name, factory)
  /\ last' = [op |-> "registerDynamicStyle", b |-> b, defs |-> <<<<name, factory>>>>]
  /\ UNCHANGED builders

\* builder.extend(defs)
Extend(b, defs) ==
  /\ get(registry, Key("extend")).kind = "plugin"
  /\ registry' = extend(registry, defs)
  /\ last' = [op |-> "extend", b |-> b, defs |-> defs]
  /\ UNCHANGED builders

\* builder(pre + inner + post), where inner is the string the last call
\* returned: the nesting of the README, flu.red("Hello", flu.blue("world") + "!").
InvokeAround(b, pre, post) ==
  /\ last.op = "call"
  /\ "inner" \notin DOMAIN last
  /\ last.result.ok
  /\ LET text == pre \o last.result.value \o post
     IN  last' = [op |-> "call", b |-> b, text |-> text,
                  result |-> render(text, builders[b]),
                  inner |-> [b |-> last.b, text |-> last.text,
                             value |-> last.result.value,
                             pre |-> pre, post |-> post]]
  /\ UNCHANGED <<registry, builders>>

\* The README's frame and shout pairs.
FramePair == Style(code(51), code(54))
ShoutPair == Style(code(1), code(22))

CallArgs == {<<Str(<<"a">>), Num(1), Bool(TRUE)>>}

(***************************************************************************)
(* Spec: every operation of the surface, on a registry whose built-in      *)
(* names are registered again.                                             *)
(***************************************************************************)
PropNames == {"red", "rgb", "toString", "extend"}

Next ==
  \/ \E b \in {1, Len(builders)}, n \in PropNames : GetProp(b, Key(n))
  \/ \E b \in {1, Len(builders)} : GetProp(b, ToPrimitive)
  \/ \E b \in {1, Len(builders)}, args \in CallArgs : Invoke(b, args)
  \/ \E b \in {1, Len(builders)} : Coerce(b)
  \/ \E args \in NumberArgs : CallAccessor(args)
  \/ \E b \in {1, Len(builders)} : RegisterStyle(b, "red", FramePair.open, FramePair.close)
  \/ \E b \in {1, Len(builders)} : RegisterDynamicStyle(b, "rgb", Factory("hsl"))
  \/ \E b \in {1, Len(builders)} : Extend(b, <<<<"red", ShoutPair>>, <<"rgb", Factory("bgRgb")>>>>)

Spec == Init /\ [][Next]_vars

(***************************************************************************)
(* SpecRegistry: registrations under new names, built-in names and the     *)
(* names of the plugin operations, and the property accesses after them.   *)
(***************************************************************************)
RegistryProps == {"red", "rgb", "frame", "toString", "extend"}
StaticNames == {"frame", "extend"}
DynamicNames == {"frame", "red", "toString"}
ExtendDefs == {<<<<"frame", ShoutPair>>, <<"red", Factory("hsl")>>>>}

NextRegistry ==
  \/ \E b \in {1, Len(builders)}, n \in RegistryProps : GetProp(b, Key(n))
  \/ \E b \in {1, Len(builders)}, n \in StaticNames :
       RegisterStyle(b, n, FramePair.open, FramePair.close)
  \/ \E b \in {1, Len(builders)}, n \in DynamicNames : RegisterDynamicStyle(b, n, Factory("hsl"))
  \/ \E b \in {1, Len(builders)}, defs \in ExtendDefs : Extend(b, defs)

SpecRegistry == Init /\ [][NextRegistry]_vars

(***************************************************************************)
(* SpecShared: registrations through one builder and the property access   *)
(* that follows on another.                                                *)
(***************************************************************************)
SharedProps == {"red", "frame", "extend"}

NextShared ==
  \/ \E b \in Builders, n \in SharedProps : GetAfter(b, Key(n))
  \/ \E b \in Builders, n \in StaticNames :
       RegisterStyle(b, n, FramePair.open, FramePair.close)
  \/ \E b \in Builders : RegisterDynamicStyle(b, "red", Factory("hsl"))
  \/ \E b \in Builders : Extend(b, <<<<"frame", Factory("hsl")>>>>)

SpecShared == Init /\ [][NextShared]_vars

(***************************************************************************)
(* SpecRender: chains of built-in styles, rendered around plain text, and  *)
(* around the rendering of another chain.                                  *)
(***************************************************************************)
ChainNames == {"red", "blue", "bgRed", "bgBlue", "reset"}
PlainTexts == {<<"a">>}
Margins == {<<>>, <<"b">>}

NextRender ==
  \/ \E b \in {1, Len(builders)}, n \in ChainNames :
       Access(b, Key(n), NoCall, MaxChain + 1)
  \/ \E b \in Builders, t \in PlainTexts : Invoke(b, <<Str(t)>>)
  \/ \E b \in Builders, pre \in Margins, post \in Margins :
       /\ Len(builders[b]) = 1
       /\ last.op = "call" /\ Len(builders[last.b]) = 1
       /\ InvokeAround(b, pre, post)
  \/ \E b \in Builders : Coerce(b)

SpecRender == Init /\ [][NextRender]_vars

(***************************************************************************)
(* SpecPair: one pair of arbitrary strings registered as frame, and the    *)
(* built-in reset, each applied to every short text.                       *)
(***************************************************************************)
Strings(A, n) == UNION {[1..k -> A] : k \in 0..n}

PairAlphabet == {"a", "$"}
PairStrings == Strings(PairAlphabet, MaxPairLen) \cup {code(51), code(54)}

\* The texts: up to MaxFrags fragments, each a character, a part of an
\* escape code, or a close code.
Fragments == {<<"a">>, <<ESC>>, <<"m">>, code(54), code(0)}

RECURSIVE Flatten(_)
Flatten(ss) == IF ss = <<>> THEN <<>> ELSE Head(ss) \o Flatten(Tail(ss))

PairTexts == {Flatten(fs) : fs \in Strings(Fragments, MaxFrags)}

NextPair ==
  \/ /\ last.op = "createFlu"
     /\ \E o \in PairStrings, c \in PairStrings : RegisterStyle(1, "frame", o, c)
  \/ /\ Len(builders) = 1
     /\ GetProp(1, Key(IF last.op = "createFlu" THEN "reset" ELSE "frame"))
  \/ /\ last.op = "get"
     /\ Len(builders) = 2
     /\ \E t \in PairTexts : Invoke(2, <<Str(t)>>)

SpecPair == Init /\ [][NextPair]_vars

(***************************************************************************)
(* SpecHex: the hex and bgHex accessors of the root, called with every     *)
(* short string.                                                           *)
(***************************************************************************)
HexAlphabet == {" ", "#", "a", "F"}
HexInputs == Strings(HexAlphabet, MaxHexLen)

NextHex ==
  \/ /\ last.op = "createFlu"
     /\ \E n \in {"hex", "bgHex"} : GetProp(1, Key(n))
  \/ /\ last.op = "get"
     /\ \E h \in HexInputs : CallAccessor(<<h>>)

SpecHex == Init /\ [][NextHex]_vars

(***************************************************************************)
(* Properties of the registry and of the builders.                         *)
(***************************************************************************)
\* A static style is found under n: registered, built in or inherited.
StaticFound(n) == n \in DOMAIN registry.styles \/ n \in ObjectPrototype

\* The new builder of the access or accessor call `last` records.
NewBuilder == builders[Len(builders)]

\* C4 as stated: after a registration through one builder, the next access
\* under the registered name on another builder resolves to the registered
\* definition: a new builder for a pair, a function for a factory.
C4_AsStated ==
  (last.op = "get" /\ last.after.op \in RegOps /\ last.b # last.after.b) =>
    \A i \in 1..Len(last.after.defs) :
      LET n == last.after.defs[i][1]
          v == last.after.defs[i][2]
      IN  last.prop.name = n =>
            IF IsFunction(v) THEN last.kind = "accessor"
            ELSE last.kind = "builder" /\ NewBuilder = Append(builders[last.b], v)

\* C4, amended: after a registration through one builder, the next access
\* under the registered name on another builder, when the name is not the
\* name of a plugin operation, returns a new builder with the registered
\* pair appended, and for a registered factory returns the function of that
\* factory unless a static style is found under the name.
C4_RegistrationSeenByOtherBuilders ==
  (last.op = "get" /\ last.after.op \in RegOps /\ last.b # last.after.b) =>
    \A i \in 1..Len(last.after.defs) :
      LET n == last.after.defs[i][1]
          v == last.after.defs[i][2]
      IN  (last.prop.name = n /\ n \notin PluginOps) =>
            IF ~IsFunction(v)
            THEN last.kind = "builder" /\ NewBuilder = Append(builders[last.b], v)
            ELSE StaticFound(n) \/
                 (last.kind = "accessor" /\ Lookup(registry.dynamics, n) = v)

\* The root reads frame right after builder 2 registered it.
C4_Witness ==
  /\ last.op = "get" /\ last.b = 1 /\ last.prop = Key("frame")
  /\ last.after.op = "registerStyle" /\ last.after.b = 2
  /\ last.kind = "builder"
  /\ Len(builders) = 3 /\ builders[3] = <<FramePair>>

\* C5: an access that resolves to a style, and a call of a dynamic accessor,
\* add one builder whose sequence is the parent's with one pair appended, and
\* no operation changes the sequence of a builder that exists.
C5_BuildersAreSnapshots ==
  [][/\ \A i \in 1..Len(builders) : i <= Len(builders') /\ builders'[i] = builders[i]
     /\ IF last'.op \in {"get", "callAccessor"} /\ last'.kind = "builder"
        THEN /\ Len(builders') = Len(builders) + 1
             /\ Len(builders'[Len(builders')]) = Len(builders[last'.b]) + 1
             /\ SubSeq(builders'[Len(builders')], 1, Len(builders[last'.b]))
                  = builders[last'.b]
             /\ last'.op = "get" =>
                  builders'[Len(builders')][Len(builders[last'.b]) + 1]
                    = Lookup(registry.styles, last'.prop.name)
        ELSE Len(builders') = Len(builders)]_vars

\* Builder 2 keeps the red pair it was created with, and has a sibling,
\* after red is registered again.
C5_Witness ==
  /\ Len(builders) = 3
  /\ builders[2] = <<Style(code(31), FG_CLOSE)>>
  /\ Len(builders[3]) = 1
  /\ last.op = "registerStyle"
  /\ Lookup(registry.styles, "red") = FramePair

\* C6 as stated: after a registration, the name resolves to the definition
\* registered last under it, whatever the name and whatever was there.
C6_AsStated ==
  last.op \in RegOps =>
    \A i \in 1..Len(last.defs) :
      LET n == last.defs[i][1]
          v == last.defs[i][2]
          r == get(registry, Key(n))
      IN  IF IsFunction(v)
          THEN r.kind = "accessor" /\ Lookup(registry.dynamics, n) = v
          ELSE r.kind = "builder" /\ r.st = v

\* C6, amended: the name of a plugin operation always resolves to the
\* operation.  Under any other name the pair registered last is what the
\* name resolves to, whatever was registered before; the factory registered
\* last is the one kept, and the name resolves to it unless a static style
\* is found under the name, which then takes precedence.
C6_LastRegistrationWins ==
  last.op \in RegOps =>
    \A i \in 1..Len(last.defs) :
      LET n == last.defs[i][1]
          v == last.defs[i][2]
          r == get(registry, Key(n))
      IN  /\ n \in PluginOps => r.kind = "plugin"
          /\ (n \notin PluginOps /\ ~IsFunction(v)) => r.kind = "builder" /\ r.st = v
          /\ IsFunction(v) => Lookup(registry.dynamics, n) = v
          /\ (n \notin PluginOps /\ IsFunction(v)) =>
               IF StaticFound(n) THEN r.kind = "builder" ELSE r.kind = "accessor"

\* frame is registered as a pair after a factory was registered under it.
C6_Witness ==
  /\ last.op = "registerStyle"
  /\ last.defs[1][1] = "frame"
  /\ "frame" \in DOMAIN registry.dynamics
  /\ get(registry, Key("frame")) = [kind |-> "builder", st |-> FramePair]

\* C8: an access under a string that is no plugin operation and was never
\* registered, built in or not, returns undefined.
C8_UnknownNameIsUndefined ==
  (/\ last.op = "get"
   /\ ~last.prop.symbol
   /\ last.prop.name \notin PluginOps
   /\ last.prop.name \notin DOMAIN registry.styles
   /\ last.prop.name \notin DOMAIN registry.dynamics)
  => last.kind = "undefined"

(***************************************************************************)
(* Properties of the rendering.                                            *)
(***************************************************************************)
\* The chain, the text and the string of the call `last` records.
Chain == builders[last.b]
Out == last.result.value
Rendered == last.op = "call" /\ last.result.ok

RECURSIVE Opens(_)
Opens(styles) == IF styles = <<>> THEN <<>> ELSE Head(styles).open \o Opens(Tail(styles))

RECURSIVE Closes(_)
Closes(styles) ==
  IF styles = <<>> THEN <<>> ELSE Head(styles).close \o Closes(Tail(styles))

RECURSIVE Reverse(_)
Reverse(q) == IF q = <<>> THEN <<>> ELSE Append(Reverse(Tail(q)), Head(q))

\* N >= 2 distinct styles and a non-empty text with none of their closes.
C1_Case ==
  /\ Rendered
  /\ Len(Chain) >= 2
  /\ \A i, j \in 1..Len(Chain) : i # j => Chain[i] # Chain[j]
  /\ last.text # <<>>
  /\ \A i \in 1..Len(Chain) : ~Contains(last.text, Chain[i].close)

\* C1 as stated: the first-chained style wraps outermost: the opens in chain
\* order, the text, the closes in reverse chain order.
C1_AsStated ==
  C1_Case => Out = Opens(Chain) \o last.text \o Closes(Reverse(Chain))

\* C1, amended: for built-in styles whose close sequences are pairwise
\* different, the last-chained style wraps outermost: the opens in reverse
\* chain order, the text, the closes in chain order.
C1_LastChainedOutermost ==
  (C1_Case /\ \A i, j \in 1..Len(Chain) : i # j => Chain[i].close # Chain[j].close)
  => Out = Opens(Reverse(Chain)) \o last.text \o Closes(Chain)

\* flu.red.bgRed.reset("a")
C1_Witness ==
  /\ Rendered
  /\ Chain = <<Style(code(31), FG_CLOSE), Style(code(41), BG_CLOSE),
               Style(code(0), code(0))>>
  /\ last.text = <<"a">>
  /\ Out = code(0) \o code(41) \o code(31) \o <<"a">> \o FG_CLOSE \o BG_CLOSE \o code(0)

\* The one style of the chain, and the string between its open and close.
Single == Chain[1]
Middle == SubSeq(Out, Len(Single.open) + 1, Len(Out) - Len(Single.close))

\* In the middle every occurrence of the close is followed by the open.
Reopened ==
  /\ Out = Single.open \o Middle \o Single.close
  /\ \A i \in 1..(Len(Middle) + 1) :
       MatchAt(Middle, Single.close, i) =>
         MatchAt(Middle, Single.open, i + Len(Single.close))

C2_Case == Rendered /\ Len(Chain) = 1 /\ last.text # <<>>

IsCode(c) == Len(c) = 3 /\ c[1] = ESC /\ c[3] = "m" /\ c[2] \notin {ESC, "m"}

Outer == Chain[1]
Inner == builders[last.inner.b][1]
C3_Case ==
  /\ Rendered
  /\ "inner" \in DOMAIN last
  /\ Len(Chain) = 1
  /\ Len(builders[last.inner.b]) = 1
  /\ Outer # Inner
  /\ last.inner.pre \o last.inner.post # <<>>

\* C3 as stated: the inner rendering is kept, and the outer open and close
\* occur once each, as prefix and suffix.
C3_AsStated ==
  C3_Case =>
    /\ Contains(Out, last.inner.value)
    /\ Occurrences(Outer.open, Out) = 1
    /\ MatchAt(Out, Outer.open, 1)
    /\ Occurrences(Outer.close, Out) = 1
    /\ MatchAt(Out, Outer.close, Len(Out) - Len(Outer.close) + 1)

\* C3, amended: the inner rendering is kept.  When the two styles have
\* different close sequences the result is A.open + text + A.close.  When
\* they share the close sequence, as two foreground colors or two background
\* colors do, A.open is also inserted after the inner close.
C3_NestedRendering ==
  C3_Case =>
    /\ last.inner.value = Inner.open \o last.inner.text \o Inner.close
    /\ Contains(Out, last.inner.value)
    /\ Outer.close # Inner.close => Out = Outer.open \o last.text \o Outer.close
    /\ Outer.close = Inner.close =>
         Out = Outer.open \o last.inner.pre \o last.inner.value \o Outer.open
                 \o last.inner.post \o Outer.close

\* flu.red(flu.blue("a") + "b")
C3_Witness ==
  /\ C3_Case
  /\ Outer = Style(code(31), FG_CLOSE)
  /\ Inner = Style(code(34), FG_CLOSE)
  /\ last.inner.pre = <<>>
  /\ Out = code(31) \o code(34) \o <<"a">> \o FG_CLOSE \o code(31) \o <<"b">> \o FG_CLOSE

\* C7 as stated: the coercion of a builder with styles is their open and
\* close sequences with nothing between, and the root's is empty.
C7_AsStated ==
  last.op = "coerce" =>
    /\ last.result.ok
    /\ IF Len(Chain) = 0 THEN Out = <<>>
       ELSE /\ Out # <<>>
            /\ \A i \in 1..Len(Chain) :
                 Contains(Out, Chain[i].open) /\ Contains(Out, Chain[i].close)

\* C7, amended: the coercion of every builder is the empty string.
C7_CoercionIsEmpty == last.op = "coerce" => last.result = Returned(<<>>)

C7_Witness == last.op = "coerce" /\ Len(Chain) = 2 /\ Out = <<>>

\* C10 as stated: a single style around a text without its close, the empty
\* text included, gives open + text + close.
C10_AsStated ==
  (Rendered /\ Len(Chain) = 1 /\ ~Contains(last.text, Single.close))
  => Out = Single.open \o last.text \o Single.close

\* C10, amended: a single style around a non-empty text without its close
\* gives open + text + close; the empty text is returned as it is.
C10_RoundTrip ==
  (Rendered /\ Len(Chain) = 1 /\ ~Contains(last.text, Single.close))
  => IF last.text = <<>> THEN Out = <<>>
     ELSE Out = Single.open \o last.text \o Single.close

C10_Witness ==
  /\ Rendered
  /\ Chain = <<Style(<<"a", "$">>, <<"$">>)>>
  /\ last.text = <<"a", "m">>
  /\ Out = <<"a", "$", "a", "m", "$">>

(***************************************************************************)
(* Properties of parseHex.                                                 *)
(***************************************************************************)
\* An optional "#", then 3 or 6 hexadecimal digits.
Digits(h) == IF h # <<>> /\ Head(h) = "#" THEN Tail(h) ELSE h
WellFormed(h) ==
  /\ Len(Digits(h)) \in {3, 6}
  /\ \A i \in 1..Len(Digits(h)) : IsHexDigit(Digits(h)[i])

\* The bytes of a well-formed input: a digit of the short form counts twice.
Bytes(h) ==
  LET d == Digits(h)
  IN  IF Len(d) = 3 THEN [k \in 1..3 |-> 17 * HexValue(d[k])]
      ELSE [k \in 1..3 |-> 16 * HexValue(d[2 * k - 1]) + HexValue(d[2 * k])]

HexCall == last.op = "callAccessor" /\ last.prop.name \in {"hex", "bgHex"}
HexBase == IF last.prop.name = "hex" THEN 38 ELSE 48

\* What the call of the accessor did when `ok` says the input is accepted
\* with bytes `rgb`: a builder with their truecolor pair, else the error
\* with the input, and no builder.
HexOutcome(ok, rgb) ==
  LET h == last.args[1]
  IN  IF ok
      THEN /\ parseHex(h) = Returned(rgb)
           /\ last.kind = "builder"
           /\ builders = <<<<>>, <<truecolor(HexBase, rgb[1], rgb[2], rgb[3])>>>>
      ELSE /\ parseHex(h) = Thrown(<<"Invalid hex color: ">> \o h)
           /\ last.kind = "throw"
           /\ last.error = <<"Invalid hex color: ">> \o h
           /\ builders = <<<<>>>>

\* C9 as stated: exactly the well-formed inputs are accepted.
C9_AsStated ==
  HexCall => HexOutcome(WellFormed(last.args[1]), Bytes(last.args[1]))

\* C9, amended: exactly the inputs that are well formed once the white space
\* around them is removed are accepted.
C9_ParseHex ==
  HexCall => HexOutcome(WellFormed(Trim(last.args[1])), Bytes(Trim(last.args[1])))

\* flu.hex(" #aF ") is refused, the white space in the error's message.
C9_Witness ==
  /\ HexCall
  /\ last.args[1] = <<" ", "#", "a", "F", " ">>
  /\ last.kind = "throw"
  /\ last.error = <<"Invalid hex color: ", " ", "#", "a", "F", " ">>

====
